---- MODULE Spec2Model ----
(***************************************************************************)
(* The socket.io presence and message-routing engine of src/server.js:     *)
(* the onlineUsers registry, the transport-level room membership of each   *)
(* socket, the handlers of the inbound events and the notifications they   *)
(* emit, and the two message collections of the history store.             *)
(***************************************************************************)
EXTENDS Integers, Sequences, FiniteSets, TLC

\* ------------------------------------------------------------------ bounds
NumConns == 2        \* sockets that ever connect (socket ids 1..NumConns)
MaxMsgs == 1         \* groupMessage / privateMessage events accepted in a run

\* ------------------------------------------------------- program constants
HistoryLimit == 100  \* .limit(100) of the history queries

Conns == 1..NumConns
NoConn == 0                       \* Array.prototype.find found nothing
Names == {"alice", "bob"}         \* usernames given to registerUser
ROOMS == {"devops", "cloud computing", "covid19", "sports", "nodeJS"}
RoomInputs == {"sports", "devops"} \* the rooms the modelled clients join
OutsideRoom == "lobby"               \* a room name that is not in ROOMS
JoinInputs == RoomInputs \cup {OutsideRoom}
NoRoom == "null"                  \* room: null
Texts == {"hi"}                   \* message bodies
System == "System"                \* from_user of the server's own notices
NoToUser == "undefined"           \* a typing payload without to_user
NoPayload == "no payload"         \* typing / stopTyping emitted with no payload
TypingInputs == Names \cup {NoToUser, NoPayload}

VARIABLES
    sock,         \* sock[c]: "new" (not yet connected), "open", "closed"
    onlineUsers,  \* the registry, in key insertion order: <<[id, username, room]>>
    rooms,        \* rooms[c]: the chat rooms socket c has joined (socket.join/leave)
    pending,      \* async handlers suspended at `await msg.save()`
    groupStore,   \* GroupMessage collection, in append order
    privateStore, \* PrivateMessage collection, in append order
    clock,        \* source of date_sent: one tick per message document created
    lastEvent,    \* the handler step that produced this state
    lastOut       \* the emissions of that step, in emission order

vars == <<sock, onlineUsers, rooms, pending, groupStore, privateStore, clock,
          lastEvent, lastOut>>

\* ------------------------------------------------------------ the registry
\* position of socket id's entry in onlineUsers, 0 when it has none
IndexOf(reg, id) ==
    IF \E i \in 1..Len(reg) : reg[i].id = id
    THEN CHOOSE i \in 1..Len(reg) : reg[i].id = id
    ELSE 0

HasUser(reg, id) == IndexOf(reg, id) # 0

\* onlineUsers[socket.id]
UserOf(reg, id) == reg[IndexOf(reg, id)]

\* onlineUsers[socket.id] = { username, room: null }: an existing key keeps
\* its position in the key order, a new key goes last
PutUser(reg, id, username) ==
    LET e == [id |-> id, username |-> username, room |-> NoRoom]
    IN  IF HasUser(reg, id)
        THEN [reg EXCEPT ![IndexOf(reg, id)] = e]
        ELSE Append(reg, e)

\* user.room = room
SetRoom(reg, id, room) == [reg EXCEPT ![IndexOf(reg, id)].room = room]

\* a disconnect handler that forgets the delete
DeleteUserSkipped(reg, id) == reg

\* delete onlineUsers[socket.id]
DeleteUser(reg, id) ==
    LET Keep(e) == e.id # id IN SelectSeq(reg, Keep)

\* an occupant scan that forgets the room filter
getUsersInRoomUnfiltered(reg, room) == [i \in 1..Len(reg) |-> reg[i].username]

\* getUsersInRoom(room): Object.values().filter(u.room === room).map(u.username)
getUsersInRoom(reg, room) ==
    LET InRoom(e) == e.room = room
        hit == SelectSeq(reg, InRoom)
    IN  [i \in 1..Len(hit) |-> hit[i].username]

\* Object.keys(onlineUsers).find(id => onlineUsers[id].username === name)
FindByNameLast(reg, name) ==
    IF \E i \in 1..Len(reg) : reg[i].username = name
    THEN LET last == CHOOSE i \in 1..Len(reg) :
                         /\ reg[i].username = name
                         /\ \A j \in (i + 1)..Len(reg) : reg[j].username # name
         IN  reg[last].id
    ELSE NoConn

\* Object.keys(onlineUsers).find(id => onlineUsers[id].username === name)
FindByName(reg, name) ==
    IF \E i \in 1..Len(reg) : reg[i].username = name
    THEN LET first == CHOOSE i \in 1..Len(reg) :
                          /\ reg[i].username = name
                          /\ \A j \in 1..(i - 1) : reg[j].username # name
         IN  reg[first].id
    ELSE NoConn

\* ----------------------------------------------------------- the transport
\* io.to(room): the connected sockets that joined the room
InRoomSockets(st, rm, room) == {c \in Conns : st[c] = "open" /\ room \in rm[c]}

\* io.to(socketId) and socket.emit: the socket itself while it is connected
OneSocket(st, id) == {c \in Conns : c = id /\ st[c] = "open"}

\* one emit call: the event tag, the room addressed (NoRoom for a single
\* socket), the sockets that receive it, the payload
Emission(tag, room, to, payload) ==
    [tag |-> tag, room |-> room, to |-> to, payload |-> payload]

\* the system notice `${user.username} has ...` with from_user 'System'; the
\* text is kept as its two parts, and its date_sent (the wall clock) is left out
SystemNotice(username, what) ==
    [from_user |-> System, about |-> username, message |-> what]

\* the documents created by new GroupMessage(...) / new PrivateMessage(...)
GroupDoc(username, room, text, date) ==
    [from_user |-> username, room |-> room, message |-> text, date_sent |-> date]

PrivateDoc(username, toUser, text, date) ==
    [from_user |-> username, to_user |-> toUser, message |-> text, date_sent |-> date]

\* --------------------------------------------------------- suspended calls
\* A handler suspended at `await msg.save()` keeps `user`, the registry
\* object it looked up.  joinRoom and leaveRoom assign user.room on that
\* same object, so the suspended handler sees the new room; registerUser
\* puts a new object under the key and disconnect deletes the key, after
\* which nothing assigns to the captured object any more.
Retarget(calls, id, room) ==
    {IF p.conn = id /\ p.attached THEN [p EXCEPT !.room = room] ELSE p : p \in calls}

Detach(calls, id) ==
    {IF p.conn = id THEN [p EXCEPT !.attached = FALSE] ELSE p : p \in calls}

NoCall == [kind |-> "none"]

\* error: what the handler threw ("none" when it returned)
Event(kind, c, arg) ==
    [kind |-> kind, conn |-> c, arg |-> arg, call |-> NoCall, error |-> "none"]

\* ------------------------------------------------------- the history routes
\* .sort({ date_sent: 1 }): ascending by date_sent, equal dates in stored order
SortByDateSent(docs) ==
    LET n == Len(docs)
        rank == [i \in 1..n |->
                    1 + Cardinality({j \in 1..n :
                            \/ docs[j].date_sent < docs[i].date_sent
                            \/ docs[j].date_sent = docs[i].date_sent /\ j < i})]
    IN  [k \in 1..n |-> docs[CHOOSE i \in 1..n : rank[i] = k]]

\* .limit(n)
Limit(docs, n) == SubSeq(docs, 1, IF Len(docs) < n THEN Len(docs) ELSE n)

\* GET /api/messages/room/:room
queryRoom(store, room) ==
    LET Match(d) == d.room = room
    IN  Limit(SortByDateSent(SelectSeq(store, Match)), HistoryLimit)

\* GET /api/messages/private/:user1/:user2
queryPrivate(store, user1, user2) ==
    LET Match(d) == \/ d.from_user = user1 /\ d.to_user = user2
                    \/ d.from_user = user2 /\ d.to_user = user1
    IN  Limit(SortByDateSent(SelectSeq(store, Match)), HistoryLimit)

\* the history store as the server finds it at start: empty, or holding a
\* conversation of earlier runs (documents dated before this run)
PriorHistory ==
    [i \in 1..HistoryLimit |-> PrivateDoc("alice", "bob", "hi", i - HistoryLimit)]

\* ----------------------------------------------------------------- Init
\* the server after start-up: no socket yet, an empty registry, and the
\* private-message collection as the database holds it
InitWith(history) ==
    /\ sock = [c \in Conns |-> "new"]
    /\ onlineUsers = <<>>
    /\ rooms = [c \in Conns |-> {}]
    /\ pending = {}
    /\ groupStore = <<>>
    /\ privateStore = history
    /\ clock = 0
    /\ lastEvent = Event("start", NoConn, "")
    /\ lastOut = <<>>

Init == InitWith(<<>>)

InitHistory == InitWith(PriorHistory)

\* io.on('connection'): a new socket with a fresh id
Connect(c) ==
    /\ sock[c] = "new"
    /\ sock' = [sock EXCEPT ![c] = "open"]
    /\ lastEvent' = Event("connection", c, "")
    /\ lastOut' = <<>>
    /\ UNCHANGED <<onlineUsers, rooms, pending, groupStore, privateStore, clock>>

\* socket.on('registerUser')
RegisterUser(c, username) ==
    /\ sock[c] = "open"
    /\ onlineUsers' = PutUser(onlineUsers, c, username)
    /\ pending' = Detach(pending, c)
    /\ lastEvent' = Event("registerUser", c, username)
    /\ lastOut' = <<>>
    /\ UNCHANGED <<sock, rooms, groupStore, privateStore, clock>>

\* the emissions of joinRoom's `if (user.room)` block, lines 123-131
JoinLeaveSide(reg, rm, user) ==
    IF user.room # NoRoom
    THEN << Emission("roomMessage", user.room, InRoomSockets(sock, rm, user.room),
                     SystemNotice(user.username, "has left the room")),
            Emission("updateUsers", user.room, InRoomSockets(sock, rm, user.room),
                     [users |-> getUsersInRoom(reg, user.room)]) >>
    ELSE <<>>

\* a joinRoom that announces the join before it announces the leave
JoinRoomJoinFirst(c, room) ==
    /\ sock[c] = "open"
    /\ lastEvent' = Event("joinRoom", c, room)
    /\ IF ~HasUser(onlineUsers, c)
       THEN /\ lastOut' = <<>>
            /\ UNCHANGED <<onlineUsers, rooms, pending>>
       ELSE LET user == UserOf(onlineUsers, c)
                left == IF user.room # NoRoom
                        THEN [rooms EXCEPT ![c] = @ \ {user.room}]
                        ELSE rooms
                reg2 == SetRoom(onlineUsers, c, room)
                rm2 == [left EXCEPT ![c] = @ \cup {room}]
            IN  /\ onlineUsers' = reg2
                /\ rooms' = rm2
                /\ pending' = Retarget(pending, c, room)
                /\ lastOut' =
                      << Emission("roomMessage", room, InRoomSockets(sock, rm2, room),
                                  SystemNotice(user.username, "has joined the room")),
                         Emission("updateUsers", room, InRoomSockets(sock, rm2, room),
                                  [users |-> getUsersInRoom(reg2, room)]) >>
                      \o JoinLeaveSide(onlineUsers, left, user)
    /\ UNCHANGED <<sock, groupStore, privateStore, clock>>

\* socket.on('joinRoom')
JoinRoom(c, room) ==
    /\ sock[c] = "open"
    /\ lastEvent' = Event("joinRoom", c, room)
    /\ IF ~HasUser(onlineUsers, c)
       THEN /\ lastOut' = <<>>
            /\ UNCHANGED <<onlineUsers, rooms, pending>>
       ELSE LET user == UserOf(onlineUsers, c)
                left == IF user.room # NoRoom
                        THEN [rooms EXCEPT ![c] = @ \ {user.room}]
                        ELSE rooms
                reg2 == SetRoom(onlineUsers, c, room)
                rm2 == [left EXCEPT ![c] = @ \cup {room}]
            IN  /\ onlineUsers' = reg2
                /\ rooms' = rm2
                /\ pending' = Retarget(pending, c, room)
                /\ lastOut' = JoinLeaveSide(onlineUsers, left, user) \o
                      << Emission("roomMessage", room, InRoomSockets(sock, rm2, room),
                                  SystemNotice(user.username, "has joined the room")),
                         Emission("updateUsers", room, InRoomSockets(sock, rm2, room),
                                  [users |-> getUsersInRoom(reg2, room)]) >>
    /\ UNCHANGED <<sock, groupStore, privateStore, clock>>

\* a leaveRoom that emits before socket.leave and before clearing user.room
LeaveRoomEmitsFirst(c) ==
    /\ sock[c] = "open"
    /\ lastEvent' = Event("leaveRoom", c, "")
    /\ IF ~HasUser(onlineUsers, c) \/ UserOf(onlineUsers, c).room = NoRoom
       THEN /\ lastOut' = <<>>
            /\ UNCHANGED <<onlineUsers, rooms, pending>>
       ELSE LET user == UserOf(onlineUsers, c)
                room == user.room
            IN  /\ rooms' = [rooms EXCEPT ![c] = @ \ {room}]
                /\ onlineUsers' = SetRoom(onlineUsers, c, NoRoom)
                /\ pending' = Retarget(pending, c, NoRoom)
                /\ lastOut' =
                      << Emission("roomMessage", room, InRoomSockets(sock, rooms, room),
                                  SystemNotice(user.username, "has left the room")),
                         Emission("updateUsers", room, InRoomSockets(sock, rooms, room),
                                  [users |-> getUsersInRoom(onlineUsers, room)]) >>
    /\ UNCHANGED <<sock, groupStore, privateStore, clock>>

\* socket.on('leaveRoom')
LeaveRoom(c) ==
    /\ sock[c] = "open"
    /\ lastEvent' = Event("leaveRoom", c, "")
    /\ IF ~HasUser(onlineUsers, c) \/ UserOf(onlineUsers, c).room = NoRoom
       THEN /\ lastOut' = <<>>
            /\ UNCHANGED <<onlineUsers, rooms, pending>>
       ELSE LET user == UserOf(onlineUsers, c)
                room == user.room
                rm2 == [rooms EXCEPT ![c] = @ \ {room}]
                reg2 == SetRoom(onlineUsers, c, NoRoom)
            IN  /\ rooms' = rm2
                /\ onlineUsers' = reg2
                /\ pending' = Retarget(pending, c, NoRoom)
                /\ lastOut' =
                      << Emission("roomMessage", room, InRoomSockets(sock, rm2, room),
                                  SystemNotice(user.username, "has left the room")),
                         Emission("updateUsers", room, InRoomSockets(sock, rm2, room),
                                  [users |-> getUsersInRoom(reg2, room)]) >>
    /\ UNCHANGED <<sock, groupStore, privateStore, clock>>

\* a groupMessage that tests the session but not its room
GroupMessageNoRoomTest(c, text) ==
    /\ sock[c] = "open"
    /\ lastEvent' = Event("groupMessage", c, text)
    /\ lastOut' = <<>>
    /\ IF ~HasUser(onlineUsers, c)
       THEN UNCHANGED <<pending, clock>>
       ELSE LET user == UserOf(onlineUsers, c)
            IN  /\ clock < MaxMsgs
                /\ clock' = clock + 1
                /\ pending' = pending \cup
                      {[kind |-> "group", conn |-> c, username |-> user.username,
                        room |-> user.room, attached |-> TRUE,
                        doc |-> GroupDoc(user.username, user.room, text, clock + 1)]}
    /\ UNCHANGED <<sock, onlineUsers, rooms, groupStore, privateStore>>

\* socket.on('groupMessage') up to `await msg.save()`
GroupMessage(c, text) ==
    /\ sock[c] = "open"
    /\ lastEvent' = Event("groupMessage", c, text)
    /\ lastOut' = <<>>
    /\ IF ~HasUser(onlineUsers, c) \/ UserOf(onlineUsers, c).room = NoRoom
       THEN UNCHANGED <<pending, clock>>
       ELSE LET user == UserOf(onlineUsers, c)
            IN  /\ clock < MaxMsgs
                /\ clock' = clock + 1
                /\ pending' = pending \cup
                      {[kind |-> "group", conn |-> c, username |-> user.username,
                        room |-> user.room, attached |-> TRUE,
                        doc |-> GroupDoc(user.username, user.room, text, clock + 1)]}
    /\ UNCHANGED <<sock, onlineUsers, rooms, groupStore, privateStore>>

\* socket.on('privateMessage') up to `await msg.save()`.  The rest of the
\* handler reads user.username only, so the room of the captured object is
\* not followed for this call.
PrivateMessage(c, toUser, text) ==
    /\ sock[c] = "open"
    /\ lastEvent' = Event("privateMessage", c, toUser)
    /\ lastOut' = <<>>
    /\ IF ~HasUser(onlineUsers, c)
       THEN UNCHANGED <<pending, clock>>
       ELSE LET user == UserOf(onlineUsers, c)
            IN  /\ clock < MaxMsgs
                /\ clock' = clock + 1
                /\ pending' = pending \cup
                      {[kind |-> "private", conn |-> c, username |-> user.username,
                        room |-> NoRoom, attached |-> FALSE,
                        doc |-> PrivateDoc(user.username, toUser, text, clock + 1)]}
    /\ UNCHANGED <<sock, onlineUsers, rooms, groupStore, privateStore>>

\* groupMessage after the save resolved, lines 172-176: user.room is read
\* again from the captured object
GroupBroadcast(p) ==
    << Emission("roomMessage", p.room, InRoomSockets(sock, rooms, p.room),
                [from_user |-> p.username, message |-> p.doc.message,
                 date_sent |-> p.doc.date_sent]) >>

\* privateMessage after the save resolved, lines 191-212
PrivateDelivery(p) ==
    LET recipientSocketId == FindByName(onlineUsers, p.doc.to_user)
        payload == [from_user |-> p.username, to_user |-> p.doc.to_user,
                    message |-> p.doc.message, date_sent |-> p.doc.date_sent]
    IN  (IF recipientSocketId # NoConn
         THEN << Emission("privateMessage", NoRoom,
                          OneSocket(sock, recipientSocketId), payload) >>
         ELSE <<>>)
        \o << Emission("privateMessage", NoRoom, OneSocket(sock, p.conn), payload) >>

\* `await msg.save()` resolves: the document is in its collection and the
\* handler runs to its end
SaveResolved(p) ==
    /\ p \in pending
    /\ pending' = pending \ {p}
    /\ lastEvent' = [Event("saved", p.conn, p.kind) EXCEPT !.call = p]
    /\ IF p.kind = "group"
       THEN /\ groupStore' = Append(groupStore, p.doc)
            /\ lastOut' = GroupBroadcast(p)
            /\ UNCHANGED privateStore
       ELSE /\ privateStore' = Append(privateStore, p.doc)
            /\ lastOut' = PrivateDelivery(p)
            /\ UNCHANGED groupStore
    /\ UNCHANGED <<sock, onlineUsers, rooms, clock>>

\* a handler that swallows the rejection and goes on to emit
SaveRejectedStillEmits(p) ==
    /\ p \in pending
    /\ pending' = pending \ {p}
    /\ lastEvent' = [Event("saveFailed", p.conn, p.kind) EXCEPT !.call = p]
    /\ lastOut' = IF p.kind = "group" THEN GroupBroadcast(p) ELSE PrivateDelivery(p)
    /\ UNCHANGED <<sock, onlineUsers, rooms, groupStore, privateStore, clock>>

\* `await msg.save()` rejects (validation or store failure): the async handler
\* ends there with a rejected promise
SaveRejected(p) ==
    /\ p \in pending
    /\ pending' = pending \ {p}
    /\ lastEvent' = [Event("saveFailed", p.conn, p.kind) EXCEPT !.call = p]
    /\ lastOut' = <<>>
    /\ UNCHANGED <<sock, onlineUsers, rooms, groupStore, privateStore, clock>>

\* the emissions of the disconnect handler, lines 253-260
DisconnectNotices(reg, st, rm, c) ==
    IF HasUser(reg, c) /\ UserOf(reg, c).room # NoRoom
    THEN LET user == UserOf(reg, c)
         IN  << Emission("roomMessage", user.room, InRoomSockets(st, rm, user.room),
                         SystemNotice(user.username, "has disconnected")),
                Emission("updateUsers", user.room, InRoomSockets(st, rm, user.room),
                         [users |-> getUsersInRoom(reg, user.room)]) >>
    ELSE <<>>

\* socket.on('disconnect'): socket.io has closed the socket and taken it out
\* of its rooms before the handler runs.  The handler may be run again for a
\* socket that is already closed (a repeated disconnect notification).
Disconnect(c) ==
    /\ sock[c] # "new"
    /\ sock' = [sock EXCEPT ![c] = "closed"]
    /\ rooms' = [rooms EXCEPT ![c] = {}]
    /\ lastEvent' = Event("disconnect", c,
                           IF sock[c] = "closed" THEN "repeated" ELSE "first")
    /\ lastOut' = DisconnectNotices(onlineUsers, sock', rooms', c)
    /\ onlineUsers' = DeleteUser(onlineUsers, c)
    /\ pending' = Detach(pending, c)
    /\ UNCHANGED <<groupStore, privateStore, clock>>

\* a room typing notice sent with io.to(room), which includes the sender
OthersInRoomWithSender(st, rm, room, c) == InRoomSockets(st, rm, room)

\* socket.to(room): the connected sockets that joined the room, but the sender
OthersInRoom(st, rm, room, c) == InRoomSockets(st, rm, room) \ {c}

\* the emit of the typing and stopTyping handlers, lines 220-231 and 238-247,
\* for a registered sender and a payload whose to_user could be read
TypingEmits(tag, c, toUser) ==
    LET user == UserOf(onlineUsers, c)
        recipientSocketId == FindByName(onlineUsers, toUser)
        payload == [from_user |-> user.username]
    IN  IF toUser \notin {NoToUser, NoPayload}
        THEN IF recipientSocketId # NoConn
             THEN << Emission(tag, NoRoom, OneSocket(sock, recipientSocketId), payload) >>
             ELSE <<>>
        ELSE IF user.room # NoRoom
             THEN << Emission(tag, user.room,
                              OthersInRoom(sock, rooms, user.room, c), payload) >>
             ELSE <<>>

\* socket.on('typing'): `data.to_user` is read without a test of `data`, so
\* with no payload the handler throws a TypeError
Typing(c, toUser) ==
    /\ sock[c] = "open"
    /\ IF ~HasUser(onlineUsers, c)
       THEN /\ lastEvent' = Event("typing", c, toUser)
            /\ lastOut' = <<>>
       ELSE IF toUser = NoPayload
       THEN /\ lastEvent' = [Event("typing", c, toUser) EXCEPT !.error = "TypeError"]
            /\ lastOut' = <<>>
       ELSE /\ lastEvent' = Event("typing", c, toUser)
            /\ lastOut' = TypingEmits("typing", c, toUser)
    /\ UNCHANGED <<sock, onlineUsers, rooms, pending, groupStore, privateStore, clock>>

\* socket.on('stopTyping'): `data && data.to_user`
StopTyping(c, toUser) ==
    /\ sock[c] = "open"
    /\ lastEvent' = Event("stopTyping", c, toUser)
    /\ lastOut' = IF ~HasUser(onlineUsers, c) THEN <<>>
                  ELSE TypingEmits("stopTyping", c, toUser)
    /\ UNCHANGED <<sock, onlineUsers, rooms, pending, groupStore, privateStore, clock>>

Next ==
    \/ \E c \in Conns : Connect(c)
    \/ \E c \in Conns, username \in Names : RegisterUser(c, username)
    \/ \E c \in Conns, room \in RoomInputs : JoinRoom(c, room)
    \/ \E c \in Conns : LeaveRoom(c)
    \/ \E c \in Conns, text \in Texts : GroupMessage(c, text)
    \/ \E c \in Conns, toUser \in Names, text \in Texts : PrivateMessage(c, toUser, text)
    \/ \E p \in pending : SaveResolved(p)
    \/ \E p \in pending : SaveRejected(p)
    \/ \E c \in Conns : Disconnect(c)

\* presence and messaging
Spec == Init /\ [][Next]_vars

\* every handler: presence, messaging and the typing indicators, with clients
\* that all join the same room
NextGuards ==
    \/ \E c \in Conns : Connect(c)
    \/ \E c \in Conns, username \in Names : RegisterUser(c, username)
    \/ \E c \in Conns : JoinRoom(c, "sports")
    \/ \E c \in Conns : LeaveRoom(c)
    \/ \E c \in Conns, text \in Texts : GroupMessage(c, text)
    \/ \E c \in Conns, toUser \in Names, text \in Texts : PrivateMessage(c, toUser, text)
    \/ \E p \in pending : SaveResolved(p)
    \/ \E p \in pending : SaveRejected(p)
    \/ \E c \in Conns, toUser \in TypingInputs : Typing(c, toUser)
    \/ \E c \in Conns, toUser \in TypingInputs : StopTyping(c, toUser)
    \/ \E c \in Conns : Disconnect(c)

SpecGuards == Init /\ [][NextGuards]_vars

\* private messaging on a database that already holds a conversation
NextHistory ==
    \/ \E c \in Conns : Connect(c)
    \/ \E c \in Conns, username \in Names : RegisterUser(c, username)
    \/ \E c \in Conns, toUser \in Names, text \in Texts : PrivateMessage(c, toUser, text)
    \/ \E p \in pending : SaveResolved(p)
    \/ \E p \in pending : SaveRejected(p)
    \/ \E c \in Conns : Disconnect(c)

SpecHistory == InitHistory /\ [][NextHistory]_vars

\* the presence events alone: no message is sent
NextPresence ==
    \/ \E c \in Conns : Connect(c)
    \/ \E c \in Conns, username \in Names : RegisterUser(c, username)
    \/ \E c \in Conns, room \in RoomInputs : JoinRoom(c, room)
    \/ \E c \in Conns : LeaveRoom(c)
    \/ \E c \in Conns : Disconnect(c)

SpecPresence == Init /\ [][NextPresence]_vars

\* the presence events and the typing indicators
NextTyping ==
    \/ NextPresence
    \/ \E c \in Conns, toUser \in TypingInputs : Typing(c, toUser)
    \/ \E c \in Conns, toUser \in TypingInputs : StopTyping(c, toUser)

SpecTyping == Init /\ [][NextTyping]_vars

\* ================================================================ claims
Range(f) == {f[i] : i \in DOMAIN f}

\* the emissions of the last step that reached socket c
ReceivedBy(c) == {i \in 1..Len(lastOut) : c \in lastOut[i].to}

\* the last step was the handler of `kind`
Handled(kind) == lastEvent.kind = kind

\* C1: the occupant list that disconnect(c) broadcasts to c's room R is the
\* occupant list of R without c, i.e. the list of R once c's entry is gone.
C1_DisconnectListOmitsLeaver ==
    Handled("disconnect") /\ Len(lastOut) = 2
        => lastOut[2].payload.users = getUsersInRoom(onlineUsers, lastOut[2].room)

\* C2: when a session in R1 joins R2 # R1, the occupant list sent to R1 does
\* not name the session any more (it is the list of R1 after the move) and
\* the list sent to R2 names it.
C2_JoinListsShowOneRoom ==
    Handled("joinRoom") /\ Len(lastOut) = 4 /\ lastOut[2].room # lastOut[4].room
        => /\ lastOut[2].payload.users = getUsersInRoom(onlineUsers, lastOut[2].room)
           /\ UserOf(onlineUsers, lastEvent.conn).username
                  \in Range(lastOut[4].payload.users)

\* C3: the chat rooms a live connection has joined at the transport level are
\* exactly {currentRoom} when it is registered with a room, none otherwise.
C3_TransportMatchesRegistry ==
    \A c \in Conns :
        sock[c] = "open" =>
            rooms[c] = IF HasUser(onlineUsers, c) /\ UserOf(onlineUsers, c).room # NoRoom
                       THEN {UserOf(onlineUsers, c).room}
                       ELSE {}

\* C4: a groupMessage accepted while the sender was in room R is persisted
\* with room R and broadcast to R, reaching the sender, whatever the sender
\* did while the append was pending (stated here for senders still connected
\* when the append completes).
C4_GroupMessageStaysInItsRoom ==
    Handled("saved") /\ lastEvent.call.kind = "group" /\ sock[lastEvent.conn] = "open"
        => /\ groupStore[Len(groupStore)].room = lastEvent.call.doc.room
           /\ lastOut[1].room = lastEvent.call.doc.room
           /\ lastEvent.conn \in lastOut[1].to

\* the user (non-System) message emissions of the last step
UserMessages ==
    {i \in 1..Len(lastOut) :
        /\ lastOut[i].tag \in {"roomMessage", "privateMessage"}
        /\ lastOut[i].payload.from_user # System}

\* C5: persist-before-broadcast: a user roomMessage or privateMessage is only
\* emitted by a handler whose document the store has taken, with the stored
\* sender, text and date; a handler whose append failed emits nothing.
C5_PersistBeforeBroadcast ==
    /\ \A i \in UserMessages :
          /\ Handled("saved")
          /\ LET doc == lastEvent.call.doc
                 store == IF lastEvent.call.kind = "group" THEN groupStore
                          ELSE privateStore
             IN  /\ doc \in Range(store)
                 /\ lastOut[i].payload.from_user = doc.from_user
                 /\ lastOut[i].payload.message = doc.message
                 /\ lastOut[i].payload.date_sent = doc.date_sent
    /\ Handled("saveFailed") =>
          /\ lastOut = <<>>
          /\ lastEvent.call.doc \notin Range(groupStore) \cup Range(privateStore)

C5_Witness ==
    /\ Handled("saved")
    /\ \E i \in UserMessages : lastOut[i].to # {}

\* C6 as stated: occupants(R) contains a session's displayName iff that
\* session's currentRoom is R.
C6_OccupantsIffCurrentRoom ==
    \A R \in RoomInputs : \A i \in 1..Len(onlineUsers) :
        onlineUsers[i].username \in Range(getUsersInRoom(onlineUsers, R))
            <=> onlineUsers[i].room = R

\* C6 amended: occupants(R) contains a session's displayName iff some
\* registered session holding that displayName has currentRoom R (the session
\* itself when no other session holds its name).
C6_OccupantsIffSomeHolderInRoom ==
    \A R \in RoomInputs : \A i \in 1..Len(onlineUsers) :
        onlineUsers[i].username \in Range(getUsersInRoom(onlineUsers, R))
            <=> \E j \in 1..Len(onlineUsers) :
                    /\ onlineUsers[j].username = onlineUsers[i].username
                    /\ onlineUsers[j].room = R

C6_Witness ==
    \E i, j \in 1..Len(onlineUsers) :
        /\ onlineUsers[i].username = onlineUsers[j].username
        /\ onlineUsers[i].room \in RoomInputs
        /\ onlineUsers[j].room \in RoomInputs
        /\ onlineUsers[i].room # onlineUsers[j].room

\* C7: no connection receives two copies of one notification of one event.
C7_AtMostOncePerEvent ==
    \A c \in Conns : \A i, j \in ReceivedBy(c) :
        i # j => ~(/\ lastOut[i].tag = lastOut[j].tag
                   /\ lastOut[i].payload = lastOut[j].payload)

\* C8: a privateMessage whose to_user no registered session holds when the
\* append completes is in the store, both pair queries return it, and nothing
\* is delivered to a connection other than the sender's.
C8_OfflineRecipientStoredAndEchoed ==
    (/\ Handled("saved")
     /\ lastEvent.call.kind = "private"
     /\ FindByName(onlineUsers, lastEvent.call.doc.to_user) = NoConn)
        => LET doc == lastEvent.call.doc
           IN  /\ doc \in Range(privateStore)
               /\ doc \in Range(queryPrivate(privateStore, doc.from_user, doc.to_user))
               /\ doc \in Range(queryPrivate(privateStore, doc.to_user, doc.from_user))
               /\ \A i \in 1..Len(lastOut) : lastOut[i].to \subseteq {lastEvent.conn}

\* C9: the first disconnect of c removes c's entry and emits one
\* 'has disconnected' notice and one occupant list to c's room (nothing when
\* c had no room); a disconnect processed again for c leaves the registry as
\* it is and emits nothing.
C9_DisconnectIdempotent ==
    [][\A c \in Conns :
          (lastEvent'.kind = "disconnect" /\ lastEvent'.conn = c) =>
              /\ ~HasUser(onlineUsers', c)
              /\ sock[c] = "closed" => onlineUsers' = onlineUsers /\ lastOut' = <<>>
              /\ sock[c] = "open" =>
                    IF HasUser(onlineUsers, c) /\ UserOf(onlineUsers, c).room # NoRoom
                    THEN /\ Len(lastOut') = 2
                         /\ lastOut'[1].tag = "roomMessage"
                         /\ lastOut'[1].payload.message = "has disconnected"
                         /\ lastOut'[2].tag = "updateUsers"
                         /\ lastOut'[1].room = UserOf(onlineUsers, c).room
                         /\ lastOut'[2].room = UserOf(onlineUsers, c).room
                    ELSE lastOut' = <<>>]_vars

C9_Witness == Handled("disconnect") /\ lastEvent.arg = "repeated"

\* C10: once disconnect(c) has been processed, a step of a handler of c (the
\* end of a handler that was awaiting the store) leaves the registry as it is
\* and delivers nothing to any connection.
C10_NothingAfterDisconnect ==
    [][(/\ lastEvent'.kind \in {"saved", "saveFailed"}
        /\ sock[lastEvent'.conn] = "closed")
          => /\ onlineUsers' = onlineUsers
             /\ \A i \in 1..Len(lastOut') : lastOut'[i].to = {}]_vars

\* the connections reached by a sequence of emissions
Targets(out) == UNION {out[i].to : i \in 1..Len(out)}

\* the last step was the typing or the stopTyping handler
HandledTyping == lastEvent.kind \in {"typing", "stopTyping"}

\* the connections whose registry entry holds the displayName
Holders(name) == {onlineUsers[i].id : i \in {k \in 1..Len(onlineUsers) :
                                                onlineUsers[k].username = name}}

\* C11: a typing or stopTyping event in room mode (no to_user) never reaches
\* the sending connection; in direct mode it reaches at most one connection,
\* a holder of the displayName, and nobody when no session holds it.
C11_TypingTargets ==
    HandledTyping =>
        IF lastEvent.arg \in Names
        THEN /\ Targets(lastOut) \subseteq Holders(lastEvent.arg)
             /\ Cardinality(Targets(lastOut)) <= 1
             /\ Len(lastOut) <= 1
        ELSE lastEvent.conn \notin Targets(lastOut)

C11_Witness ==
    /\ HandledTyping
    /\ lastEvent.arg = NoToUser
    /\ Targets(lastOut) # {}
    /\ Cardinality(InRoomSockets(sock, rooms, lastOut[1].room)) = 2

\* C12: a typing or stopTyping event with to_user given is never delivered to
\* the connection that sent it.
C12_DirectTypingNotToSender ==
    HandledTyping /\ lastEvent.arg \in Names
        => lastEvent.conn \notin Targets(lastOut)

\* C13: for every registry state, sender and payload the typing handler
\* reaches the connections the stopTyping handler reaches for the same
\* payload, and neither handler raises an error.
C13_StopTypingTargetsAsTyping ==
    /\ HandledTyping => lastEvent.error = "none"
    /\ Handled("typing") /\ HasUser(onlineUsers, lastEvent.conn)
          => Targets(lastOut)
                 = Targets(TypingEmits("stopTyping", lastEvent.conn, lastEvent.arg))

\* C14: from a connection's first registerUser until its disconnect, no step
\* changes the displayName stored for it.
C14_DisplayNameSetOnce ==
    [][\A c \in Conns :
          HasUser(onlineUsers, c) /\ HasUser(onlineUsers', c)
              => UserOf(onlineUsers', c).username = UserOf(onlineUsers, c).username]_vars

\* privateMessage and the typing indicators: the events that resolve to_user
NextDirect ==
    \/ \E c \in Conns : Connect(c)
    \/ \E c \in Conns, username \in Names : RegisterUser(c, username)
    \/ \E c \in Conns, toUser \in Names, text \in Texts : PrivateMessage(c, toUser, text)
    \/ \E p \in pending : SaveResolved(p)
    \/ \E p \in pending : SaveRejected(p)
    \/ \E c \in Conns, toUser \in TypingInputs : Typing(c, toUser)
    \/ \E c \in Conns, toUser \in TypingInputs : StopTyping(c, toUser)
    \/ \E c \in Conns : Disconnect(c)

SpecDirect == Init /\ [][NextDirect]_vars

\* the presence events, with clients that also name a room outside ROOMS
NextCatalog ==
    \/ \E c \in Conns : Connect(c)
    \/ \E c \in Conns, username \in Names : RegisterUser(c, username)
    \/ \E c \in Conns, room \in JoinInputs : JoinRoom(c, room)
    \/ \E c \in Conns : LeaveRoom(c)
    \/ \E c \in Conns : Disconnect(c)

SpecCatalog == Init /\ [][NextCatalog]_vars

\* the session of c exists and references a room
InARoom(reg, c) == HasUser(reg, c) /\ UserOf(reg, c).room # NoRoom

\* C15: joinRoom, leaveRoom, groupMessage, privateMessage, typing and
\* stopTyping from an unregistered connection, and leaveRoom or groupMessage
\* from a registered session without a room, change neither the registry nor
\* the transport membership, start no store append, deliver nothing and
\* raise no error.
C15_InvalidEventsAreNoOps ==
    [][\A c \in Conns :
          (/\ lastEvent'.conn = c
           /\ \/ /\ lastEvent'.kind \in {"joinRoom", "leaveRoom", "groupMessage",
                                         "privateMessage", "typing", "stopTyping"}
                 /\ ~HasUser(onlineUsers, c)
              \/ /\ lastEvent'.kind \in {"leaveRoom", "groupMessage"}
                 /\ ~InARoom(onlineUsers, c))
              => /\ UNCHANGED <<onlineUsers, rooms, pending, groupStore, privateStore>>
                 /\ lastOut' = <<>>
                 /\ lastEvent'.error = "none"]_vars

C15_Witness ==
    /\ Handled("groupMessage")
    /\ HasUser(onlineUsers, lastEvent.conn)
    /\ ~InARoom(onlineUsers, lastEvent.conn)
    /\ \E d \in Conns : InARoom(onlineUsers, d)

\* C16: a joinRoom by a session that has a room emits, in this order, the
\* 'left' notice and the occupant list to the old room, both before the
\* registry update and the transport join, then the 'joined' notice and the
\* occupant list to the new room.
C16_JoinNotificationOrder ==
    [][\A c \in Conns :
          (/\ lastEvent'.kind = "joinRoom"
           /\ lastEvent'.conn = c
           /\ InARoom(onlineUsers, c))
              => LET old == UserOf(onlineUsers, c).room
                     new == lastEvent'.arg
                 IN  /\ Len(lastOut') = 4
                     /\ lastOut'[1].tag = "roomMessage"
                     /\ lastOut'[1].room = old
                     /\ lastOut'[1].payload.message = "has left the room"
                     /\ lastOut'[2].tag = "updateUsers"
                     /\ lastOut'[2].room = old
                     /\ lastOut'[2].payload.users = getUsersInRoom(onlineUsers, old)
                     /\ lastOut'[3].tag = "roomMessage"
                     /\ lastOut'[3].room = new
                     /\ lastOut'[3].payload.message = "has joined the room"
                     /\ c \in lastOut'[3].to
                     /\ lastOut'[4].tag = "updateUsers"
                     /\ lastOut'[4].room = new
                     /\ lastOut'[4].payload.users = getUsersInRoom(onlineUsers', new)
                     /\ c \in lastOut'[4].to
                     /\ UserOf(onlineUsers', c).room = new]_vars

C16_Witness ==
    /\ Handled("joinRoom")
    /\ Len(lastOut) = 4
    /\ lastOut[1].room # lastOut[3].room
    /\ lastOut[1].to # {}

\* C17: leaveRoom by a session in room R clears its currentRoom, takes its
\* socket out of R, and broadcasts to R the 'left' notice and the occupant
\* list of R as it is after the clearing; the leaver receives neither and no
\* other registry entry changes.
C17_LeaveRoomEffect ==
    [][\A c \in Conns :
          (/\ lastEvent'.kind = "leaveRoom"
           /\ lastEvent'.conn = c
           /\ InARoom(onlineUsers, c))
              => LET R == UserOf(onlineUsers, c).room
                     audience == {d \in Conns : sock[d] = "open" /\ R \in rooms'[d]}
                 IN  /\ UserOf(onlineUsers', c).room = NoRoom
                     /\ R \notin rooms'[c]
                     /\ Len(lastOut') = 2
                     /\ lastOut'[1].tag = "roomMessage"
                     /\ lastOut'[1].payload.message = "has left the room"
                     /\ lastOut'[1].to = audience
                     /\ lastOut'[2].tag = "updateUsers"
                     /\ lastOut'[2].payload.users = getUsersInRoom(onlineUsers', R)
                     /\ lastOut'[2].to = audience
                     /\ c \notin Targets(lastOut')
                     /\ Len(onlineUsers') = Len(onlineUsers)
                     /\ \A i \in 1..Len(onlineUsers) :
                           onlineUsers[i].id # c => onlineUsers'[i] = onlineUsers[i]]_vars

C17_Witness ==
    /\ Handled("leaveRoom")
    /\ Len(lastOut) = 2
    /\ lastOut[1].to # {}

\* the holder of name whose registry entry was inserted before all others
EarliestHolder(name) ==
    CHOOSE h \in Holders(name) :
        \A g \in Holders(name) : IndexOf(onlineUsers, h) <= IndexOf(onlineUsers, g)

\* a typing or stopTyping for name that the handler resolved
ResolvedTyping(name) ==
    /\ HandledTyping
    /\ lastEvent.arg = name
    /\ HasUser(onlineUsers, lastEvent.conn)

\* a privateMessage for name whose store append has completed
ResolvedPrivate(name) ==
    /\ Handled("saved")
    /\ lastEvent.call.kind = "private"
    /\ lastEvent.call.doc.to_user = name

\* C18 as stated: with several holders of the name given as to_user, a
\* privateMessage, typing or stopTyping reaches exactly the earliest inserted
\* holder and no later one.
C18_OnlyEarliestHolderReceives ==
    \A name \in Names :
        (/\ Cardinality(Holders(name)) >= 2
         /\ ResolvedTyping(name) \/ ResolvedPrivate(name))
            => Targets(lastOut) = {EarliestHolder(name)}

\* C18: with several holders of the name given as to_user, the recipient's
\* copy of a privateMessage, typing or stopTyping goes to exactly the holder
\* inserted earliest in the registry as it is when the handler resolves the
\* name (after the store append for a privateMessage); the only other
\* delivery is the echo of a privateMessage to its sender.
C18_RecipientCopyToEarliestHolder ==
    \A name \in Names :
        Cardinality(Holders(name)) >= 2
            => /\ ResolvedTyping(name)
                    => /\ Len(lastOut) = 1
                       /\ lastOut[1].to = {EarliestHolder(name)}
               /\ ResolvedPrivate(name)
                    => /\ Len(lastOut) = 2
                       /\ lastOut[1].to = {EarliestHolder(name)}
                       /\ lastOut[2].to \subseteq {lastEvent.conn}

C18_Witness ==
    /\ Cardinality(Holders("alice")) >= 2
    /\ ResolvedPrivate("alice")
    /\ EarliestHolder("alice") = 2
    /\ lastOut[1].to = {2}

\* C19: every session's room is null or one of ROOMS.
C19_RoomAlwaysInCatalog ==
    \A i \in 1..Len(onlineUsers) : onlineUsers[i].room \in ROOMS \cup {NoRoom}

====
